---- MODULE Spec2Model ----
(***************************************************************************)
(* A model of tree3.js: the enumeration of labelled ordered trees          *)
(* (treesOfSize, allTrees), the embedding test run by the workers (tree-   *)
(* worker.js), the WorkerPool that dispatches it, and the backtracking     *)
(* search TREE(n, pool) of main.js.                                        *)
(*                                                                         *)
(* A tree is a record [label |-> Nat, children |-> Seq(tree)], the plain   *)
(* object { label, children } of the source.  A JavaScript string is a     *)
(* sequence of one-character strings.                                      *)
(*                                                                         *)
(* main.js holds the program twice: lines 1-395 with the IndexedDB cache   *)
(* and lines 397-642 with a Map as cache.  They differ, for this model, in *)
(* the cache a run starts with and in the size allTrees starts at; the     *)
(* variable variant says which one runs.                                   *)
(*                                                                         *)
(* Steps.  A step is what runs between two awaits (or in one message       *)
(* handler).  In the search one call of treesOfSize is one step: only      *)
(* treesOfSize touches the cache, and the message handlers of the pool,    *)
(* the only code that can run between its awaits, do not read the cache.   *)
(* RaceSpec takes treesOfSize one await at a time instead.  backtrack      *)
(* returns only when its allTrees iteration ends, which the test of the    *)
(* while loop decides; the step that makes this test holds seq.pop() and   *)
(* the return of TREE.                                                     *)
(*                                                                         *)
(* Failures.  Spec has none.  FailSpec adds workers that throw on a        *)
(* message, CacheFailSpec a get or put request of treesOfSize that fails.  *)
(* A failure of the cursor of getMaxCachedSizeForN, of opening the         *)
(* database or of a transaction after its request has succeeded is not     *)
(* modelled.                                                               *)
(*                                                                         *)
(* History.  entryMax, failed, ioFault, the field out of a generator and   *)
(* the field wrote of a treesOfSize call record what has happened (the     *)
(* lengths seen at backtrack entries, the tasks a worker failed on, the    *)
(* cache request that failed, the trees yielded, a list stored); the       *)
(* fields id, pattern, target and resolves of a promise record the task it *)
(* was made for and the calls of its resolve function.  No step reads      *)
(* them.                                                                   *)
(***************************************************************************)
EXTENDS Integers, Sequences, FiniteSets, TLC

\* ------------------------------------------------------------------ bounds
\* label counts n range over 1..MaxN
MaxN == 2
\* tree sizes the enumeration may reach; cached sizes at start range over 0..MaxSize
MaxSize == 3
\* depth of the search: the sequence is not extended beyond MaxSeq trees
MaxSeq == 3
\* pool sizes W range over 1..MaxW
MaxW == 2
\* correlation ids of the search: isValidExtension submits no task beyond MaxId
MaxId == 12
\* tasks handed to a pool that is used on its own
MaxTasks == 4

VARIABLES
  n,          \* the label count TREE is run with
  variant,    \* "idb": lines 1-395 (IndexedDB cache); "mem": lines 397-642 (Map cache)
  cache,      \* the treesOfSize store: key string -> tree list
  best,       \* TREE's best
  seq,        \* the sequence shared by all backtrack frames
  gens,       \* one allTrees generator per backtrack frame, innermost last
  pc,         \* where the innermost backtrack frame stands
  cand,       \* t, the tree the innermost for-await loop holds
  promises,   \* isValidExtension's promises array (heap addresses)
  awaitIdx,   \* isValidExtension's index i of the await loop (1-based)
  ok,         \* the value isValidExtension returned
  pool,       \* the WorkerPool object
  inbox,      \* per worker: messages posted to it, not yet handled
  outbox,     \* per worker: replies posted by it, not yet handled by the pool
  heap,       \* the promise objects made by submitEmbed, in creation order
  entryMax,   \* history: the largest |seq| seen at a backtrack entry
  pA, pB, pRes, \* a direct call embeds(pA, pB): its inputs, and <<result>> once made
  failed,     \* history: the tasks a worker failed on, [id, worker]
  ioFault,    \* history: the number of the cache request that failed, 0: none
  calls       \* the calls of treesOfSize that run concurrently, in creation order

vars == <<n, variant, cache, best, seq, gens, pc, cand, promises, awaitIdx, ok,
          pool, inbox, outbox, heap, entryMax, pA, pB, pRes, failed, ioFault, calls>>

searchVars == <<n, variant, cache, best, seq, gens, pc, cand, promises, awaitIdx,
                ok, pool, inbox, outbox, heap, entryMax>>
embedVars == <<pA, pB, pRes>>
auxVars == <<failed, ioFault, calls>>

\* ------------------------------------------------------------------ trees
Leaf(l) == [label |-> l, children |-> <<>>]
Node(l, c) == [label |-> l, children |-> c]

RECURSIVE NodeCount(_)
NodeCount(t) ==
  LET RECURSIVE Sum(_)
      Sum(k) == IF k = 0 THEN 0 ELSE NodeCount(t.children[k]) + Sum(k - 1)
  IN 1 + Sum(Len(t.children))

\* Every ordered rooted tree with exactly s nodes and labels in 1..m, as a set,
\* defined by the shape of a tree (a root and a forest) and not by the
\* enumeration of the source.
RECURSIVE TreeSet(_, _), ForestSet(_, _)
TreeSet(s, m) == {Node(l, c) : l \in 1..m, c \in ForestSet(s - 1, m)}
ForestSet(k, m) ==
  IF k = 0 THEN {<<>>}
  ELSE UNION {{<<t>> \o f : t \in TreeSet(j, m), f \in ForestSet(k - j, m)} : j \in 1..k}

TreesUpTo(s, m) == UNION {TreeSet(j, m) : j \in 1..s}

\* ------------------------------------------------------------ tree-worker.js
RECURSIVE embeds(_, _), rootEmbeds(_, _), matchChildren(_, _)

\* A faulty matchChildren: tkids.slice(i + 2), one sibling too far.
matchChildrenSkipsSibling(pkids, tkids) ==
  IF Len(pkids) = 0 THEN TRUE
  ELSE \E i \in 1..Len(tkids) :
         \/ /\ rootEmbeds(Head(pkids), tkids[i])
            /\ matchChildren(Tail(pkids), SubSeq(tkids, i + 2, Len(tkids)))
         \/ matchChildren(pkids, tkids[i].children)

matchChildren(pkids, tkids) ==
  IF Len(pkids) = 0 THEN TRUE
  ELSE \E i \in 1..Len(tkids) :
         \/ /\ rootEmbeds(Head(pkids), tkids[i])
            /\ matchChildren(Tail(pkids), SubSeq(tkids, i + 1, Len(tkids)))
         \/ matchChildren(pkids, tkids[i].children)

\* A faulty rootEmbeds: a pattern without children matches no node.
rootEmbedsLeafNever(pattern, target) ==
  IF pattern.label # target.label THEN FALSE
  ELSE IF Len(pattern.children) = 0 THEN FALSE
  ELSE matchChildren(pattern.children, target.children)

rootEmbeds(pattern, target) ==
  IF pattern.label # target.label THEN FALSE
  ELSE IF Len(pattern.children) = 0 THEN TRUE
  ELSE matchChildren(pattern.children, target.children)

\* A faulty embeds: the test at the root of B is left out.
embedsBelowRootOnly(A, B) ==
  \E k \in 1..Len(B.children) : embeds(A, B.children[k])

embeds(A, B) ==
  \/ rootEmbeds(A, B)
  \/ \E k \in 1..Len(B.children) : embeds(A, B.children[k])

\* ------------------------------------------------------- main.js: strings
DigitChar == <<"0", "1", "2", "3", "4", "5", "6", "7", "8", "9">>
IsDigit(ch) == \E d \in 1..Len(DigitChar) : DigitChar[d] = ch
DigitValue(ch) == (CHOOSE d \in 1..Len(DigitChar) : DigitChar[d] = ch) - 1

\* String(k) of a non-negative integer: its decimal digits
RECURSIVE String(_)
String(k) ==
  IF k < 10 THEN <<DigitChar[k + 1]>>
  ELSE String(k \div 10) \o <<DigitChar[(k % 10) + 1]>>

\* parts.join(sep)
RECURSIVE join(_, _)
join(parts, sep) ==
  IF Len(parts) = 0 THEN <<>>
  ELSE IF Len(parts) = 1 THEN parts[1]
  ELSE parts[1] \o sep \o join(Tail(parts), sep)

\* str.split(sep) for a one-character separator
RECURSIVE split(_, _)
split(str, sep) ==
  IF \A k \in 1..Len(str) : str[k] # sep THEN <<str>>
  ELSE LET k == CHOOSE j \in 1..Len(str) :
                  str[j] = sep /\ \A h \in 1..(j - 1) : str[h] # sep
       IN <<SubSeq(str, 1, k - 1)>> \o split(SubSeq(str, k + 1, Len(str)), sep)

\* parseInt(str, 10) on a string without sign or blanks: the value of the longest
\* prefix of digits, <<value>>, or NaN when the string does not start with a digit
NaN == <<>>
isNaN(v) == v = NaN
parseInt(str) ==
  LET RECURSIVE Run(_, _, _)
      Run(k, acc, any) ==
        IF k <= Len(str) /\ IsDigit(str[k])
        THEN Run(k + 1, 10 * acc + DigitValue(str[k]), TRUE)
        ELSE IF any THEN <<acc>> ELSE NaN
  IN Run(1, 0, FALSE)

RECURSIVE treeKey(_)
treeKey(tree) ==
  IF Len(tree.children) = 0 THEN String(tree.label)
  ELSE String(tree.label) \o <<"(">>
       \o join([k \in 1..Len(tree.children) |-> treeKey(tree.children[k])], <<",">>)
       \o <<")">>

\* ------------------------------------------------------- main.js: the cache
\* The object store "treesOfSize": records { key, trees } under the key "size:n".
\* The store is a function from key strings to tree lists.  A database db is
\* [store, ops, faultAt]: ops counts the get and put requests made so far and
\* request number faultAt ends in req.onerror (0: every request succeeds).
cacheKey(size, m) == String(size) \o <<":">> \o String(m)

openTreeDB(store, faultAt) == [store |-> store, ops |-> 0, faultAt |-> faultAt]

\* the request made now is the one that fails
requestFails(db) == db.ops + 1 = db.faultAt
\* a request of db has failed
faulted(db) == db.faultAt \in 1..db.ops

\* resolves with the stored trees, <<trees>>, or with null, <<>>; rejected when
\* the get request fails
null == <<>>
loadTreesFromCache(db, size, m) ==
  [rejected |-> requestFails(db),
   value |-> IF ~requestFails(db) /\ cacheKey(size, m) \in DOMAIN db.store
             THEN <<db.store[cacheKey(size, m)]>> ELSE null,
   db |-> [db EXCEPT !.ops = @ + 1]]

\* resolves once the record is stored; rejected, with nothing stored, when the
\* put request fails
saveTreesToCache(db, size, m, trees) ==
  [rejected |-> requestFails(db),
   db |-> [db EXCEPT
             !.ops = @ + 1,
             !.store = IF requestFails(db) THEN @
                       ELSE [k \in DOMAIN @ \cup {cacheKey(size, m)} |->
                               IF k = cacheKey(size, m) THEN trees ELSE @[k]]]]

\* A faulty getMaxCachedSizeForN: the test nPart === n is left out.
getMaxCachedSizeAnyN(c, m) ==
  LET sizes == {parseInt(split(k, ":")[1])[1] :
                  k \in {key \in DOMAIN c :
                           /\ Len(split(key, ":")) = 2
                           /\ ~isNaN(parseInt(split(key, ":")[1]))
                           /\ ~isNaN(parseInt(split(key, ":")[2]))}}
  IN IF sizes = {} THEN 0 ELSE CHOOSE x \in sizes : \A y \in sizes : y <= x

\* The cursor visits every key; the largest size among the keys "size:m".
getMaxCachedSizeForN(c, m) ==
  LET sizes == {parseInt(split(k, ":")[1])[1] :
                  k \in {key \in DOMAIN c :
                           /\ Len(split(key, ":")) = 2
                           /\ ~isNaN(parseInt(split(key, ":")[1]))
                           /\ ~isNaN(parseInt(split(key, ":")[2]))
                           /\ parseInt(split(key, ":")[2])[1] = m}}
      RECURSIVE Largest(_, _)
      Largest(S, maxSize) ==
        IF S = {} THEN maxSize
        ELSE LET sizePart == CHOOSE x \in S : TRUE
             IN Largest(S \ {sizePart}, IF sizePart > maxSize THEN sizePart ELSE maxSize)
  IN Largest(sizes, 0)

\* ------------------------------------------------- main.js: the enumeration
RECURSIVE compositions(_)
\* A faulty compositions: first < total, the composition [total] is not yielded.
compositionsSeveralParts(total) ==
  IF total = 0 THEN << <<>> >>
  ELSE LET RECURSIVE From(_)
           From(first) ==
             IF first >= total THEN <<>>
             ELSE LET rests == compositions(total - first)
                  IN [k \in 1..Len(rests) |-> <<first>> \o rests[k]] \o From(first + 1)
       IN From(1)

\* compositions(total), the arrays in the order the generator yields them
compositions(total) ==
  IF total = 0 THEN << <<>> >>
  ELSE LET RECURSIVE From(_)
           From(first) ==
             IF first > total THEN <<>>
             ELSE LET rests == compositions(total - first)
                  IN [k \in 1..Len(rests) |-> <<first>> \o rests[k]] \o From(first + 1)
       IN From(1)

\* cartesian(lists): the first list varies slowest
RECURSIVE cartesianFrom(_, _, _)
cartesianFrom(lists, i, acc) ==
  IF i > Len(lists) THEN acc
  ELSE LET list == lists[i]
           next == [h \in 1..(Len(acc) * Len(list)) |->
                      acc[((h - 1) \div Len(list)) + 1]
                        \o <<list[((h - 1) % Len(list)) + 1]>>]
       IN cartesianFrom(lists, i + 1, next)

cartesian(lists) ==
  IF Len(lists) = 0 THEN << <<>> >> ELSE cartesianFrom(lists, 1, << <<>> >>)

\* The loop "if (!hasOwnProperty(seen, key)) seen[key] = tree" over the candidate
\* trees in the order they are built, followed by Object.values(seen): the first
\* tree of every key, in insertion order (no key of a tree with children is an
\* array index, so the object keeps insertion order).
seenValues(cands) ==
  LET keys == [i \in 1..Len(cands) |-> treeKey(cands[i])] \o <<>>
      kept == {i \in 1..Len(cands) : \A j \in 1..(i - 1) : keys[j] # keys[i]}
      rank == [i \in 1..Len(cands) |-> Cardinality({j \in kept : j <= i})] \o <<>>
  IN [k \in 1..Cardinality(kept) |-> cands[CHOOSE i \in kept : rank[i] = k]]

\* A faulty treesOfSize: the error of a cache request is caught and an empty
\* list is returned in its place.
throwErrorAsEmptyList(db) == [rejected |-> FALSE, trees |-> <<>>, db |-> db]

\* An await of treesOfSize meets a rejected promise: the error is thrown, no
\* try encloses it, and the promise of this call of treesOfSize is rejected.
throwError(db) == [rejected |-> TRUE, trees |-> <<>>, db |-> db]

\* treesOfSize(size, m) run on the database db: [rejected |-> whether the call
\* fails, trees |-> the list returned when it does not, db |-> the database
\* afterwards].  The calls that Promise.all starts for the parts of one
\* composition are taken one after the other, in the order of the parts; all of
\* them run, and Promise.all is rejected when one of them is.
RECURSIVE treesOfSize(_, _, _)
treesOfSize(size, m, db) ==
  LET cached == loadTreesFromCache(db, size, m)
      \* comp.map((part) => treesOfSize(part, m))
      RECURSIVE SubtreeLists(_, _, _, _, _)
      SubtreeLists(comp, k, lists, d, rej) ==
        IF k > Len(comp) THEN [rejected |-> rej, lists |-> lists, db |-> d]
        ELSE LET r == treesOfSize(comp[k], m, d)
             IN SubtreeLists(comp, k + 1, Append(lists, r.trees), r.db,
                             rej \/ r.rejected)
      comps == compositions(size - 1)
      \* for rootLabel = 1..m, for comp of compositions(size - 1): the trees built
      RECURSIVE Loop(_, _, _, _)
      Loop(rootLabel, j, cands, d) ==
        IF rootLabel > m THEN [rejected |-> FALSE, cands |-> cands, db |-> d]
        ELSE IF j > Len(comps) THEN Loop(rootLabel + 1, 1, cands, d)
        ELSE LET sub == SubtreeLists(comps[j], 1, <<>>, d, FALSE)
                 combos == cartesian(sub.lists)
             IN IF sub.rejected
                THEN [rejected |-> TRUE, cands |-> cands, db |-> sub.db]
                ELSE Loop(rootLabel, j + 1,
                          cands \o [i \in 1..Len(combos) |-> Node(rootLabel, combos[i])],
                          sub.db)
  IN IF cached.rejected THEN throwError(cached.db)
     ELSE IF cached.value # null
     THEN [rejected |-> FALSE, trees |-> cached.value[1], db |-> cached.db]
     ELSE IF size = 1
     THEN LET result == [label \in 1..m |-> Leaf(label)]
              saved == saveTreesToCache(cached.db, size, m, result)
          IN IF saved.rejected THEN throwError(saved.db)
             ELSE [rejected |-> FALSE, trees |-> result, db |-> saved.db]
     ELSE LET done == Loop(1, 1, <<>>, cached.db)
          IN IF done.rejected THEN throwError(done.db)
             ELSE LET result == seenValues(done.cands)
                      saved == saveTreesToCache(done.db, size, m, result)
                  IN IF saved.rejected THEN throwError(saved.db)
                     ELSE [rejected |-> FALSE, trees |-> result, db |-> saved.db]

\* ------------------------------------------------- main.js: the WorkerPool
\* A worker is its index in this.workers.  The operations act on the record
\* st = [pool, inbox, heap]: the pool object, the messages posted to each worker,
\* and the promise objects.  A promise is its index in heap; callbacks[id] holds
\* the promise whose resolve function submitEmbed stored under id.
WorkerPool(size) ==
  [size |-> size,
   workers |-> [i \in 1..size |-> i],
   idleWorkers |-> [i \in 1..size |-> i],
   queue |-> <<>>,
   nextId |-> 1,
   callbacks |-> <<>>]

RECURSIVE _dispatch(_)
\* A faulty _dispatch: while (this.idleWorkers.length > 1 && ...), the last idle
\* worker is never used.
_dispatchKeepsOneIdle(st) ==
  IF Len(st.pool.idleWorkers) > 1 /\ Len(st.pool.queue) > 0
  THEN LET worker == st.pool.idleWorkers[Len(st.pool.idleWorkers)]
           task == Head(st.pool.queue)
       IN _dispatch([st EXCEPT
            !.pool.idleWorkers = SubSeq(@, 1, Len(@) - 1),
            !.pool.queue = Tail(@),
            !.inbox[worker] = Append(@, task.msg)])
  ELSE st

\* A faulty _dispatch: the worker is read off idleWorkers and left there.
_dispatchPeeksWorker(st) ==
  IF Len(st.pool.idleWorkers) > 0 /\ Len(st.pool.queue) > 0
  THEN LET worker == st.pool.idleWorkers[Len(st.pool.idleWorkers)]
           task == Head(st.pool.queue)
       IN _dispatch([st EXCEPT
            !.pool.queue = Tail(@),
            !.inbox[worker] = Append(@, task.msg)])
  ELSE st

\* if (this.queue.length === 0) return; then the while loop
_dispatch(st) ==
  IF Len(st.pool.idleWorkers) > 0 /\ Len(st.pool.queue) > 0
  THEN LET worker == st.pool.idleWorkers[Len(st.pool.idleWorkers)]
           task == Head(st.pool.queue)
       IN _dispatch([st EXCEPT
            !.pool.idleWorkers = SubSeq(@, 1, Len(@) - 1),
            !.pool.queue = Tail(@),
            !.inbox[worker] = Append(@, task.msg)])
  ELSE st

\* A faulty submitEmbed: the id is the number of waiting callbacks plus one, so
\* the id of a deleted callback is given again.
submitEmbedReusesId(st, pattern, target) ==
  LET id == Cardinality(DOMAIN st.pool.callbacks) + 1
      promise == [state |-> "pending", value |-> FALSE, resolves |-> 0,
                  id |-> id, pattern |-> pattern, target |-> target]
      addr == Len(st.heap) + 1
  IN _dispatch([st EXCEPT
       !.pool.nextId = @ + 1,
       !.heap = Append(@, promise),
       !.pool.callbacks = [k \in DOMAIN @ \cup {id} |-> IF k = id THEN addr ELSE @[k]],
       !.pool.queue = Append(@, [msg |-> [id |-> id, pattern |-> pattern,
                                          target |-> target]])])

\* A faulty onerror: the worker is given back to the pool.
onerrorReleasesWorker(st, worker) ==
  _dispatch([st EXCEPT !.pool.idleWorkers = Append(@, worker)])

\* worker.onerror = (err) => { console.error("Worker error:", err); }: the pool
\* is left as it is
onerror(st, worker) == st

\* the promise returned is the last one of the heap afterwards
submitEmbed(st, pattern, target) ==
  LET id == st.pool.nextId
      promise == [state |-> "pending", value |-> FALSE, resolves |-> 0,
                  id |-> id, pattern |-> pattern, target |-> target]
      addr == Len(st.heap) + 1
  IN _dispatch([st EXCEPT
       !.pool.nextId = @ + 1,
       !.heap = Append(@, promise),
       !.pool.callbacks = [k \in DOMAIN @ \cup {id} |-> IF k = id THEN addr ELSE @[k]],
       !.pool.queue = Append(@, [msg |-> [id |-> id, pattern |-> pattern,
                                          target |-> target]])])

\* cb.resolve(result): the first call settles the promise, later calls do nothing
resolve(promise, result) ==
  IF promise.state = "pending"
  THEN [promise EXCEPT !.state = "fulfilled", !.value = result, !.resolves = @ + 1]
  ELSE [promise EXCEPT !.resolves = @ + 1]

\* A faulty _onWorkerMessage: the result is given to the oldest callback, not to
\* callbacks[data.id].
_onWorkerMessageOldest(st, worker, data) ==
  LET ids == DOMAIN st.pool.callbacks
      id == IF ids = {} THEN data.id ELSE CHOOSE k \in ids : \A h \in ids : k <= h
      settled ==
        IF id \in ids
        THEN [st EXCEPT
               !.pool.callbacks = [k \in DOMAIN @ \ {id} |-> @[k]],
               !.heap[st.pool.callbacks[id]] = resolve(@, data.result)]
        ELSE st
  IN _dispatch([settled EXCEPT !.pool.idleWorkers = Append(@, worker)])

\* A faulty _onWorkerMessage: this._dispatch() is left out, the queued tasks
\* wait for the next submitEmbed.
_onWorkerMessageNoDispatch(st, worker, data) ==
  LET id == data.id
      has == id \in DOMAIN st.pool.callbacks
      settled ==
        IF has
        THEN [st EXCEPT
               !.pool.callbacks = [k \in DOMAIN @ \ {id} |-> @[k]],
               !.heap[st.pool.callbacks[id]] = resolve(@, data.result)]
        ELSE st
  IN [settled EXCEPT !.pool.idleWorkers = Append(@, worker)]

_onWorkerMessageResult(st, worker, data) ==
  LET id == data.id
      result == data.result
      has == id \in DOMAIN st.pool.callbacks
      settled ==
        IF has
        THEN [st EXCEPT
               !.pool.callbacks = [k \in DOMAIN @ \ {id} |-> @[k]],
               !.heap[st.pool.callbacks[id]] = resolve(@, result)]
        ELSE st
  IN _dispatch([settled EXCEPT !.pool.idleWorkers = Append(@, worker)])

\* terminate(): every worker is stopped, so the messages posted to it are never
\* run, and the pool forgets its workers, callbacks and queue
terminate(st) ==
  [st EXCEPT
     !.pool.workers = <<>>,
     !.pool.idleWorkers = <<>>,
     !.pool.callbacks = <<>>,
     !.pool.queue = <<>>,
     !.inbox = [w \in DOMAIN @ |-> <<>>]]

\* --------------------------------------------------------- the search state
poolState == [pool |-> pool, inbox |-> inbox, heap |-> heap]

\* The cache after treesOfSize(S, m) has run on c (S = 0: not run).
CacheAfter(S, m, c) ==
  IF S = 0 THEN c ELSE treesOfSize(S, m, openTreeDB(c, 0)).db.store

\* main(): a pool of W workers, then TREE(n, pool): best = 0 and backtrack([]).
\* The IndexedDB store holds what earlier runs of treesOfSize wrote: the lists of
\* sizes 1..S for n and, possibly, lists for another label count.  The Map of the
\* in-memory variant is empty.
Init ==
  /\ n \in 1..MaxN
  /\ variant \in {"idb", "mem"}
  /\ \E S \in 0..MaxSize, other \in BOOLEAN :
       /\ variant = "mem" => (S = 0 /\ ~other)
       /\ cache = CacheAfter(S, n, CacheAfter(IF other THEN 2 ELSE 0, n + 1, <<>>))
  /\ best = 0
  /\ seq = <<>>
  /\ gens = <<>>
  /\ pc = "entry"
  /\ cand = Leaf(1)
  /\ promises = <<>>
  /\ awaitIdx = 0
  /\ ok = TRUE
  /\ \E W \in 1..MaxW :
       /\ pool = WorkerPool(W)
       /\ inbox = [w \in 1..W |-> <<>>]
       /\ outbox = [w \in 1..W |-> <<>>]
  /\ heap = <<>>
  /\ entryMax = 0
  /\ pA = Leaf(1) /\ pB = Leaf(1) /\ pRes = <<>>
  /\ failed = {} /\ ioFault = 0 /\ calls = <<>>

\* ------------------------------------------------------ main.js: allTrees
\* The generator of the innermost backtrack frame; the for-await loop of that
\* frame asks it for the next tree while pc = "next".
gen == gens[Len(gens)]
genIs(state) == pc = "next" /\ Len(gens) > 0 /\ gen.state = state

\* A faulty start: the first size as the comment of the source announces it,
\* "resume from S + 1".
startSizeAfterCached(maxSize) == maxSize + 1

\* let size = maxSize > 0 ? maxSize : 1
startSize(maxSize) == IF maxSize > 0 THEN maxSize ELSE 1

\* first next(): maxSize = await getMaxCachedSizeForN(n), then size; the
\* in-memory variant has let size = 1
allTreesStart ==
  /\ genIs("created")
  /\ LET maxSize == IF variant = "idb" THEN getMaxCachedSizeForN(cache, n) ELSE 0
     IN gens' = [gens EXCEPT ![Len(gens)] =
                   [@ EXCEPT !.state = "load", !.maxSize = maxSize,
                             !.size = IF variant = "idb" THEN startSize(maxSize) ELSE 1]]
  /\ UNCHANGED <<n, variant, cache, best, seq, pc, cand, promises, awaitIdx, ok,
                 pool, inbox, outbox, heap, entryMax>>
  /\ UNCHANGED embedVars
  /\ UNCHANGED auxVars

\* const ts = await treesOfSize(size, n), with cache request number faultAt
\* failing (0: none fails).  When treesOfSize is rejected the await throws in the
\* generator, the for-await loop of the innermost backtrack throws, and so does
\* await backtrack(seq) in every frame below, without seq.pop(): TREE is
\* rejected, main logs the error and its finally block runs pool.terminate().
awaitTreesOfSize(faultAt) ==
  /\ genIs("load")
  /\ gen.size <= MaxSize
  /\ LET r == treesOfSize(gen.size, n, openTreeDB(cache, faultAt))
         st == terminate(poolState)
     IN /\ faultAt = 0 \/ faulted(r.db)
        /\ cache' = r.db.store
        /\ ioFault' = IF faulted(r.db) THEN faultAt ELSE ioFault
        /\ IF r.rejected
           THEN /\ pc' = "failed"
                /\ pool' = st.pool
                /\ inbox' = st.inbox
                /\ outbox' = [w \in DOMAIN outbox |-> <<>>]
                /\ UNCHANGED gens
           ELSE /\ gens' = [gens EXCEPT ![Len(gens)] =
                              [@ EXCEPT !.state = "iter", !.ts = r.trees, !.i = 0]]
                /\ UNCHANGED <<pc, pool, inbox, outbox>>
  /\ UNCHANGED <<n, variant, best, seq, cand, promises, awaitIdx, ok,
                 heap, entryMax>>
  /\ UNCHANGED embedVars
  /\ UNCHANGED <<failed, calls>>

\* no request fails
allTreesLoad == awaitTreesOfSize(0)

\* yield ts[i]: the for-await loop of backtrack receives t and calls
\* isValidExtension
allTreesYield ==
  /\ genIs("iter")
  /\ gen.i < Len(gen.ts)
  /\ cand' = gen.ts[gen.i + 1]
  /\ gens' = [gens EXCEPT ![Len(gens)] =
                [@ EXCEPT !.i = @ + 1, !.out = Append(@, gen.ts[gen.i + 1])]]
  /\ pc' = "validate"
  /\ UNCHANGED <<n, variant, cache, best, seq, promises, awaitIdx, ok,
                 pool, inbox, outbox, heap, entryMax>>
  /\ UNCHANGED embedVars
  /\ UNCHANGED auxVars

\* A faulty allTrees: a loop that ends, while (size <= 1).
whileConditionOneSize(size) == size <= 1

\* while (true)
whileCondition(size) == TRUE

\* the for loop over ts is over: size += 1, then the test of the while loop.
\* Were the test false, the generator would return: the for-await loop of the
\* innermost backtrack frame ends and that call of backtrack returns, either to
\* TREE, which returns best, or to the frame below, which runs seq.pop() and asks
\* its own generator for the next tree.
allTreesNextSize ==
  /\ genIs("iter")
  /\ gen.i = Len(gen.ts)
  /\ IF whileCondition(gen.size + 1)
     THEN /\ gens' = [gens EXCEPT ![Len(gens)] =
                        [@ EXCEPT !.state = "load", !.size = @ + 1, !.ts = <<>>, !.i = 0]]
          /\ UNCHANGED <<seq, pc, pool, inbox, outbox>>
     ELSE IF Len(gens) = 1
     THEN \* main logs the result and its finally block runs pool.terminate()
          /\ gens' = <<>>
          /\ pc' = "returned"
          /\ pool' = terminate(poolState).pool
          /\ inbox' = terminate(poolState).inbox
          /\ outbox' = [w \in DOMAIN outbox |-> <<>>]
          /\ UNCHANGED seq
     ELSE /\ gens' = SubSeq(gens, 1, Len(gens) - 1)
          /\ seq' = SubSeq(seq, 1, Len(seq) - 1)
          /\ pc' = "next"
          /\ UNCHANGED <<pool, inbox, outbox>>
  /\ UNCHANGED <<n, variant, cache, best, cand, promises, awaitIdx, ok,
                 heap, entryMax>>
  /\ UNCHANGED embedVars
  /\ UNCHANGED auxVars

\* ----------------------------------------------- main.js: isValidExtension
\* The first loop: one submitEmbed(seq[i], t) per tree of seq, no await between.
RECURSIVE submitAll(_, _, _, _)
submitAll(st, sequence, t, i) ==
  IF i > Len(sequence) THEN st
  ELSE submitAll(submitEmbed(st, sequence[i], t), sequence, t, i + 1)

isValidExtension ==
  /\ pc = "validate"
  /\ IF Len(seq) = 0
     THEN /\ ok' = TRUE
          /\ pc' = "decide"
          /\ UNCHANGED <<promises, awaitIdx, pool, inbox, heap>>
     ELSE /\ pool.nextId + Len(seq) - 1 <= MaxId
          /\ LET st == submitAll(poolState, seq, cand, 1)
             IN /\ pool' = st.pool
                /\ inbox' = st.inbox
                /\ heap' = st.heap
                /\ promises' = [i \in 1..Len(seq) |-> Len(heap) + i]
          /\ awaitIdx' = 1
          /\ pc' = "await"
          /\ UNCHANGED ok
  /\ UNCHANGED <<n, variant, cache, best, seq, gens, cand, outbox, entryMax>>
  /\ UNCHANGED embedVars
  /\ UNCHANGED auxVars

\* A faulty await loop: return true inside the loop, after the first promise
\* that holds false.
awaitOutcomeStopsEarly(embedsResult, i, len) ==
  IF embedsResult THEN "false" ELSE "true"

\* one turn of the second loop, for (i < promises.length): "false" and "true" are
\* the values returned, "next" goes on to promises[i + 1]
awaitOutcome(embedsResult, i, len) ==
  IF embedsResult THEN "false"
  ELSE IF i = len THEN "true"
  ELSE "next"

\* const embedsResult = await promises[i], once that promise is fulfilled
isValidExtensionAwait ==
  /\ pc = "await"
  /\ heap[promises[awaitIdx]].state = "fulfilled"
  /\ LET outcome == awaitOutcome(heap[promises[awaitIdx]].value, awaitIdx,
                                 Len(promises))
     IN IF outcome = "next"
        THEN /\ awaitIdx' = awaitIdx + 1 /\ UNCHANGED <<ok, pc>>
        ELSE /\ ok' = (outcome = "true") /\ pc' = "decide" /\ UNCHANGED awaitIdx
  /\ UNCHANGED <<n, variant, cache, best, seq, gens, cand, promises,
                 pool, inbox, outbox, heap, entryMax>>
  /\ UNCHANGED embedVars
  /\ UNCHANGED auxVars

\* --------------------------------------------------- main.js: TREE, backtrack
\* A faulty backtrack entry: best is not updated.
updateBestForgotten(b, sequence) == b

\* if (seq.length > best) best = seq.length
updateBest(b, sequence) == IF Len(sequence) > b THEN Len(sequence) ELSE b

newGenerator == [state |-> "created", maxSize |-> 0, size |-> 0, ts |-> <<>>,
                 i |-> 0, out |-> <<>>]

\* backtrack(seq) is entered: best is updated and for await (... of allTrees(n))
\* makes the generator of this frame
backtrack ==
  /\ pc = "entry"
  /\ best' = updateBest(best, seq)
  /\ entryMax' = IF Len(seq) > entryMax THEN Len(seq) ELSE entryMax
  /\ gens' = Append(gens, newGenerator)
  /\ pc' = "next"
  /\ UNCHANGED <<n, variant, cache, seq, cand, promises, awaitIdx, ok,
                 pool, inbox, outbox, heap>>
  /\ UNCHANGED embedVars
  /\ UNCHANGED auxVars

\* A faulty backtrack: seq.push(t) without if (ok).
backtrackPushUnchecked ==
  /\ pc = "decide"
  /\ Len(seq) < MaxSeq
  /\ seq' = Append(seq, cand)
  /\ pc' = "entry"
  /\ promises' = <<>>
  /\ awaitIdx' = 0
  /\ UNCHANGED <<n, variant, cache, best, gens, cand, ok, pool, inbox, outbox,
                 heap, entryMax>>
  /\ UNCHANGED embedVars
  /\ UNCHANGED auxVars

\* if (ok) { seq.push(t); await backtrack(seq); ... }
backtrackPush ==
  /\ pc = "decide"
  /\ ok
  /\ Len(seq) < MaxSeq
  /\ seq' = Append(seq, cand)
  /\ pc' = "entry"
  /\ promises' = <<>>
  /\ awaitIdx' = 0
  /\ UNCHANGED <<n, variant, cache, best, gens, cand, ok, pool, inbox, outbox,
                 heap, entryMax>>
  /\ UNCHANGED embedVars
  /\ UNCHANGED auxVars

\* ok is false: the for-await loop asks the generator for the next tree
backtrackNext ==
  /\ pc = "decide"
  /\ ~ok
  /\ pc' = "next"
  /\ promises' = <<>>
  /\ awaitIdx' = 0
  /\ UNCHANGED <<n, variant, cache, best, seq, gens, cand, ok, pool, inbox, outbox,
                 heap, entryMax>>
  /\ UNCHANGED embedVars
  /\ UNCHANGED auxVars

\* ------------------------------------------------ the workers and their pool
\* tree-worker.js, self.onmessage: the worker takes the oldest message posted to
\* it, runs embeds and posts { id, result }
workerOnMessage(w) ==
  /\ Len(inbox[w]) > 0
  /\ LET data == Head(inbox[w])
     IN outbox' = [outbox EXCEPT ![w] =
          Append(@, [id |-> data.id, result |-> embeds(data.pattern, data.target)])]
  /\ inbox' = [inbox EXCEPT ![w] = Tail(@)]
  /\ UNCHANGED <<n, variant, cache, best, seq, gens, pc, cand, promises, awaitIdx,
                 ok, pool, heap, entryMax>>
  /\ UNCHANGED embedVars
  /\ UNCHANGED auxVars

\* worker.onmessage = (e) => this._onWorkerMessage(worker, e)
_onWorkerMessage(w) ==
  /\ Len(outbox[w]) > 0
  /\ LET st == _onWorkerMessageResult(poolState, w, Head(outbox[w]))
     IN /\ pool' = st.pool
        /\ inbox' = st.inbox
        /\ heap' = st.heap
  /\ outbox' = [outbox EXCEPT ![w] = Tail(@)]
  /\ UNCHANGED <<n, variant, cache, best, seq, gens, pc, cand, promises, awaitIdx,
                 ok, entryMax>>
  /\ UNCHANGED embedVars
  /\ UNCHANGED auxVars

Next ==
  \/ backtrack
  \/ allTreesStart
  \/ allTreesLoad
  \/ allTreesYield
  \/ allTreesNextSize
  \/ isValidExtension
  \/ isValidExtensionAwait
  \/ backtrackPush
  \/ backtrackNext
  \/ \E w \in 1..pool.size : workerOnMessage(w)
  \/ \E w \in 1..pool.size : _onWorkerMessage(w)

Spec == Init /\ [][Next]_vars

\* ------------------------------------------------------------ the claims
\* C2: the sequence of the search is a bad sequence in every reachable state: for
\* all i < j, embeds(seq[i], seq[j]) is false.
C2_BadSequence ==
  \A i, j \in 1..Len(seq) : i < j => ~embeds(seq[i], seq[j])

\* three trees have been accepted
C2_Witness == Len(seq) = 3 /\ pc = "next"

\* C3: isValidExtension returns true exactly when no tree of seq embeds into t,
\* whatever the order in which the workers reply and whatever the pool size.
C3_ValidExtensionResult ==
  pc = "decide" => (ok = (\A i \in 1..Len(seq) : ~embeds(seq[i], cand)))

\* a call over two trees returned false on its first promise although the reply
\* to its second task had arrived before
C3_Witness ==
  /\ pc = "decide" /\ ~ok /\ awaitIdx = 1 /\ Len(promises) >= 2
  /\ heap[promises[2]].state = "fulfilled"
  /\ pool.size >= 2

\* C4: of the tasks submitted to a pool, no promise is resolved twice, a resolved
\* promise holds embeds(pattern, target) of its own task, and every promise is
\* eventually resolved, also when there are more tasks than workers.
C4_EveryTaskResolvedOnce ==
  /\ [](\A a \in 1..Len(heap) :
          /\ heap[a].resolves <= 1
          /\ heap[a].state = "fulfilled" =>
               /\ heap[a].resolves = 1
               /\ heap[a].value = embeds(heap[a].pattern, heap[a].target))
  /\ \A a \in 1..MaxTasks :
       (Len(heap) >= a) ~> (Len(heap) >= a /\ heap[a].state = "fulfilled")

\* more tasks than the pool has workers, with different results, all resolved
C4_Witness ==
  /\ Len(heap) > pool.size + 1
  /\ \A a \in 1..Len(heap) : heap[a].state = "fulfilled"
  /\ \E a, b \in 1..Len(heap) : heap[a].value /\ ~heap[b].value

\* C5: the list treesOfSize(size, n) returns to allTrees holds every tree with
\* size nodes and labels in 1..n exactly once, and nothing else: every tree of it
\* has size nodes and no two of them have the same treeKey.
C5_TreesOfSizeExact ==
  (Len(gens) > 0 /\ gen.state = "iter" /\ gen.i = 0) =>
    LET ts == gen.ts
        all == TreeSet(gen.size, n)
    IN /\ {ts[k] : k \in 1..Len(ts)} = all
       /\ Len(ts) = Cardinality(all)
       /\ \A k \in 1..Len(ts) : NodeCount(ts[k]) = gen.size
       /\ Cardinality({treeKey(ts[k]) : k \in 1..Len(ts)}) = Len(ts)

\* a list of size 3 that treesOfSize computed in this run, not read from the cache
C5_Witness ==
  /\ Len(gens) > 0 /\ gen.state = "iter" /\ gen.i = 0 /\ gen.size = 3
  /\ gen.maxSize < 3 /\ variant = "idb"

\* The trees an iteration has been given by the cache for the sizes from..to.
RECURSIVE ListsOfSizes(_, _)
ListsOfSizes(from, to) ==
  IF from > to THEN <<>>
  ELSE cache[cacheKey(from, n)] \o ListsOfSizes(from + 1, to)

C7_BestIsMaxAtEntry ==
  /\ [](best = entryMax)
  /\ [][best' >= best]_vars

\* backtrack has been entered with two trees and best has followed
C7_Witness == best = 2 /\ Len(seq) = 2 /\ pc = "next"

C10_IdsCountUp ==
  \A a \in 1..Len(heap) : heap[a].id = a

\* ids were given after the callback of id 1 had been resolved and deleted
C10_Witness ==
  /\ Len(heap) >= 3
  /\ heap[1].state = "fulfilled"
  /\ 1 \notin DOMAIN pool.callbacks
  /\ DOMAIN pool.callbacks # {}

\* C11: for n >= 2 the search does not terminate: in no reachable state has
\* TREE(n, pool) returned a value.
C11_NeverReturns ==
  n >= 2 => pc # "returned"

\* with n = 2 the innermost iteration has gone through a whole list, has passed
\* the test of its while loop and has loaded the next size
C11_Witness ==
  /\ n = 2 /\ Len(seq) = 2 /\ Len(gens) = 3
  /\ gen.state = "iter" /\ gen.size = 2 /\ Len(gen.out) >= 2

\* C12: in a run that finds nothing cached for n when it starts (an empty cache
\* is the case), the sequence is at all times a prefix of the single-node trees
\* 1, 2, ..., n in that order, so best never exceeds n and no candidate is
\* accepted once the n single-node trees are in the sequence.
C12_PrefixOfLeaves ==
  (Len(gens) > 0 /\ gens[1].state # "created" /\ gens[1].maxSize = 0) =>
    /\ Len(seq) <= n
    /\ \A k \in 1..Len(seq) : seq[k] = Leaf(k)
    /\ best <= n

\* both single-node trees are in the sequence and a candidate of two nodes has
\* been refused
C12_Witness ==
  /\ n = 2 /\ Len(gens) = 3 /\ gens[1].maxSize = 0
  /\ seq = <<Leaf(1), Leaf(2)>> /\ best = 2
  /\ pc = "decide" /\ ~ok /\ NodeCount(cand) = 2

\* C13: no call of backtrack returns, so seq.pop() is never run: the number of
\* backtrack frames never goes down, the sequence never gets shorter and a tree
\* that was accepted stays where it is.
C13_NoBacktrackReturns ==
  [][/\ Len(gens') >= Len(gens)
     /\ Len(seq') >= Len(seq)
     /\ SubSeq(seq', 1, Len(seq)) = seq]_vars

\* with one tree accepted, the iteration of the second frame was exhausted for
\* one size and went on to the next instead of returning
C13_Witness ==
  /\ n = 1 /\ Len(seq) = 1 /\ Len(gens) = 2
  /\ gen.state = "load" /\ Len(gen.out) >= 1

\* The largest size s with an entry "s:n" in the cache, 0 when there is none.
LargestCachedSize ==
  LET sizes == {s \in 1..(MaxSize + 2) : cacheKey(s, n) \in DOMAIN cache}
  IN IF sizes = {} THEN 0 ELSE CHOOSE x \in sizes : \A y \in sizes : y <= x

ControllerIdle ==
  /\ n = 1 /\ variant = "idb" /\ cache = <<>> /\ best = 0 /\ seq = <<>>
  /\ gens = <<>> /\ pc = "idle" /\ cand = Leaf(1) /\ promises = <<>>
  /\ awaitIdx = 0 /\ ok = TRUE /\ entryMax = 0
  /\ failed = {} /\ ioFault = 0 /\ calls = <<>>

SearchIdle ==
  /\ ControllerIdle
  /\ pool = WorkerPool(0)
  /\ inbox = <<>> /\ outbox = <<>> /\ heap = <<>>

\* -------------------------------------------------- the pool on its own
\* new WorkerPool("tree-worker.js", W), then calls of submitEmbed in any number
\* and at any moment between the replies of the workers.  The tasks test the
\* single node 1 against a single node: one that it embeds into and one that it
\* does not.
PoolTargets == {Leaf(1), Leaf(2)}

PoolInit ==
  /\ ControllerIdle
  /\ \E W \in 1..MaxW :
       /\ pool = WorkerPool(W)
       /\ inbox = [w \in 1..W |-> <<>>]
       /\ outbox = [w \in 1..W |-> <<>>]
  /\ heap = <<>>
  /\ pA = Leaf(1) /\ pB = Leaf(1) /\ pRes = <<>>

callSubmitEmbed(target) ==
  /\ pool.nextId <= MaxTasks
  /\ LET st == submitEmbed(poolState, Leaf(1), target)
     IN /\ pool' = st.pool
        /\ inbox' = st.inbox
        /\ heap' = st.heap
  /\ UNCHANGED <<n, variant, cache, best, seq, gens, pc, cand, promises, awaitIdx,
                 ok, outbox, entryMax>>
  /\ UNCHANGED embedVars
  /\ UNCHANGED auxVars

PoolNext ==
  \/ \E target \in PoolTargets : callSubmitEmbed(target)
  \/ \E w \in 1..pool.size : workerOnMessage(w)
  \/ \E w \in 1..pool.size : _onWorkerMessage(w)

\* A worker that has a message runs it to its end, and the reply it posts is
\* delivered to the pool: no worker fails, terminate is not called.
PoolSpec ==
  /\ PoolInit
  /\ [][PoolNext]_vars
  /\ \A w \in 1..MaxW : WF_vars(w <= pool.size /\ workerOnMessage(w))
  /\ \A w \in 1..MaxW : WF_vars(w <= pool.size /\ _onWorkerMessage(w))

\* C16: between the calls of submitEmbed and the handlers of the workers'
\* replies, the pool never holds both an idle worker and a queued task.
C16_IdleOrQueueEmpty ==
  Len(pool.idleWorkers) = 0 \/ Len(pool.queue) = 0

\* tasks wait in the queue while every worker is busy, after a reply was handled
C16_Witness ==
  /\ Len(pool.queue) >= 1 /\ Len(pool.idleWorkers) = 0 /\ pool.size = 2
  /\ \E a \in 1..Len(heap) : heap[a].state = "fulfilled"

\* How often worker w stands in idleWorkers.
IdleCount(w) ==
  Cardinality({k \in 1..Len(pool.idleWorkers) : pool.idleWorkers[k] = w})

\* C17: every worker of the pool either stands in idleWorkers, once, or has
\* exactly one task (posted to it, or answered with the reply not yet handled),
\* never both and never two tasks; the tasks dispatched and not yet answered,
\* which are the callbacks that are not in the queue, and the idle workers are W
\* together.
C17_WorkerIdleOrOneTask ==
  /\ \A w \in 1..pool.size : IdleCount(w) + Len(inbox[w]) + Len(outbox[w]) = 1
  /\ \A k \in 1..Len(pool.idleWorkers) : pool.idleWorkers[k] \in 1..pool.size
  /\ (Cardinality(DOMAIN pool.callbacks) - Len(pool.queue))
       + Len(pool.idleWorkers) = pool.size

\* of two workers one is idle again after a task and the other one has a task
C17_Witness ==
  /\ pool.size = 2 /\ Len(pool.idleWorkers) = 1
  /\ \E w \in 1..2 : Len(inbox[w]) = 1
  /\ \E a \in 1..Len(heap) : heap[a].state = "fulfilled"

\* ------------------------------------------------- workers that may fail
\* The worker fails on the message it runs (embeds throws): it posts no reply,
\* and the error event runs the pool's onerror handler for this worker.
workerFails(w) ==
  /\ Len(inbox[w]) > 0
  /\ LET data == Head(inbox[w])
         st == onerror([pool |-> pool,
                        inbox |-> [inbox EXCEPT ![w] = Tail(@)],
                        heap |-> heap], w)
     IN /\ pool' = st.pool
        /\ inbox' = st.inbox
        /\ heap' = st.heap
        /\ failed' = failed \cup {[id |-> data.id, worker |-> w]}
  /\ UNCHANGED <<n, variant, cache, best, seq, gens, pc, cand, promises, awaitIdx,
                 ok, outbox, entryMax, ioFault, calls>>
  /\ UNCHANGED embedVars

FailNext ==
  \/ Next
  \/ \E w \in 1..pool.size : workerFails(w)

FailSpec == Init /\ [][FailNext]_vars

\* C15: once a worker has failed on a task, the promise of the task stays
\* pending and its resolve function is never called, the worker is never in
\* idleWorkers again, and a call of isValidExtension that has come to await
\* this promise stays there: the search goes no further, and TREE neither
\* returns nor fails.
C15_FailedTaskStalls ==
  /\ [](\A f \in failed :
          /\ heap[f.id].state = "pending"
          /\ heap[f.id].resolves = 0
          /\ \A k \in 1..Len(pool.idleWorkers) : pool.idleWorkers[k] # f.worker)
  /\ [](failed # {} => pc \notin {"returned", "failed"})
  /\ [][(pc = "await" /\ \E f \in failed : promises[awaitIdx] = f.id) =>
          /\ pc' = "await" /\ awaitIdx' = awaitIdx
          /\ seq' = seq /\ best' = best /\ gens' = gens]_vars

\* the call awaits the promise of a task a worker failed on, while the other
\* worker has answered the task submitted after it
C15_Witness ==
  /\ pc = "await" /\ Len(promises) >= 2 /\ awaitIdx = 1
  /\ \E f \in failed : promises[1] = f.id
  /\ heap[promises[2]].state = "fulfilled"

\* ------------------------------------------- a cache whose requests may fail
\* One get or put request of the IndexedDB store, made by treesOfSize, fails
\* (the in-memory variant makes no request).  The requests of one call of
\* treesOfSize from allTrees are numbered in the order they are made.
awaitTreesOfSizeFault ==
  /\ variant = "idb"
  /\ genIs("load")
  /\ gen.size <= MaxSize
  /\ \E faultAt \in 1..treesOfSize(gen.size, n, openTreeDB(cache, 0)).db.ops :
       awaitTreesOfSize(faultAt)

CacheFailNext ==
  \/ Next
  \/ awaitTreesOfSizeFault

CacheFailSpec == Init /\ [][CacheFailNext]_vars

\* C18: when a get or a put request made by treesOfSize fails, the call of
\* treesOfSize is rejected: allTrees is given no list, an empty one neither, and
\* TREE(n, pool) fails.  What the cache holds after the failure is, under every
\* key, the trees of that key.
C18_CacheFailurePropagates ==
  /\ [](ioFault # 0 =>
          /\ pc = "failed"
          /\ Len(gens) > 0 /\ gen.state = "load" /\ gen.ts = <<>>)
  /\ [][ioFault' # ioFault =>
          /\ pc' = "failed"
          /\ seq' = seq /\ best' = best /\ gens' = gens]_vars
  /\ [](ioFault # 0 =>
          \A s \in 1..MaxSize :
            cacheKey(s, n) \in DOMAIN cache =>
              {cache[cacheKey(s, n)][k] : k \in 1..Len(cache[cacheKey(s, n)])}
                = TreeSet(s, n))

\* the put request of a list of three nodes failed, after the smaller lists it
\* is made of had been stored, while trees were in the sequence
C18_Witness ==
  /\ ioFault # 0 /\ pc = "failed"
  /\ gen.size = 3 /\ Len(seq) >= 1
  /\ cacheKey(2, n) \in DOMAIN cache
  /\ cacheKey(3, n) \notin DOMAIN cache

\* ------------------------------------- treesOfSize, one await at a time
\* A call of treesOfSize is named by its place: <<>> is the call made by the
\* caller, p \o <<k>> the call that the call p started for part k of the
\* composition it is working on.  A call stands at one of its awaits: "get"
\* (loadTreesFromCache), "all" (Promise.all), "put" (saveTreesToCache), or is
\* "done", its promise fulfilled with result.  A request acts on the store in the
\* step that resolves it, which may be any moment after it was made.  The field
\* wrote is history: the call has stored its list.
call(size) ==
  [size |-> size, pc |-> "get", rootLabel |-> 0, comp |-> 0, cands |-> <<>>,
   result |-> <<>>, wrote |-> FALSE]

calledBy(p, q) == Len(q) > Len(p) /\ SubSeq(q, 1, Len(p)) = p

\* comp.map((part) => treesOfSize(part, n)): one call per part, each run up to
\* its first await; the calls of the composition before are no more
startCalls(cs, p, comp) ==
  [q \in {x \in DOMAIN cs : ~calledBy(p, x)} \cup {p \o <<k>> : k \in 1..Len(comp)} |->
     IF calledBy(p, q) THEN call(comp[q[Len(q)]]) ELSE cs[q]]

\* The two for loops of call p at (rootLabel, j): the next composition and its
\* Promise.all, or, the loops over, Object.values(seen) and saveTreesToCache.
RECURSIVE nextComposition(_, _, _, _)
nextComposition(cs, p, rootLabel, j) ==
  LET comps == compositions(cs[p].size - 1)
  IN IF rootLabel > n
     THEN [cs EXCEPT ![p].pc = "put", ![p].result = seenValues(cs[p].cands)]
     ELSE IF j > Len(comps) THEN nextComposition(cs, p, rootLabel + 1, 1)
     ELSE [startCalls(cs, p, comps[j]) EXCEPT
             ![p].pc = "all", ![p].rootLabel = rootLabel, ![p].comp = j]

\* A faulty Promise.all: fulfilled as soon as one of the calls is.
promiseAllFulfilledByOne(cs, p, len) ==
  \E k \in 1..len : cs[p \o <<k>>].pc = "done"

\* Promise.all is fulfilled once every call is, with their results in the order
\* of the parts
promiseAllFulfilled(cs, p, len) ==
  \A k \in 1..len : cs[p \o <<k>>].pc = "done"

running == <<>> \in DOMAIN calls /\ calls[<<>>].pc # "done"

\* the caller calls treesOfSize(size, n); it makes one call at a time
callTreesOfSize(size) ==
  /\ ~running
  /\ calls' = [q \in {<<>>} |-> call(size)]
  /\ UNCHANGED <<n, variant, cache, best, seq, gens, pc, cand, promises, awaitIdx,
                 ok, pool, inbox, outbox, heap, entryMax, failed, ioFault>>
  /\ UNCHANGED embedVars

\* const cached = await loadTreesFromCache(size, n), and what follows up to the
\* next await
getResolves(p) ==
  /\ calls[p].pc = "get"
  /\ LET cached == loadTreesFromCache(openTreeDB(cache, 0), calls[p].size, n).value
     IN calls' =
          IF cached # null
          THEN [calls EXCEPT ![p].pc = "done", ![p].result = cached[1]]
          ELSE IF calls[p].size = 1
          THEN [calls EXCEPT ![p].pc = "put",
                             ![p].result = [label \in 1..n |-> Leaf(label)]]
          ELSE nextComposition(calls, p, 1, 1)
  /\ UNCHANGED <<n, variant, cache, best, seq, gens, pc, cand, promises, awaitIdx,
                 ok, pool, inbox, outbox, heap, entryMax, failed, ioFault>>
  /\ UNCHANGED embedVars

\* const subtreeLists = await Promise.all(...), the loop over combos, and what
\* follows up to the next await
allResolves(p) ==
  /\ calls[p].pc = "all"
  /\ LET comp == compositions(calls[p].size - 1)[calls[p].comp]
         subtreeLists == [k \in 1..Len(comp) |-> calls[p \o <<k>>].result]
         combos == cartesian(subtreeLists)
         built == [i \in 1..Len(combos) |-> Node(calls[p].rootLabel, combos[i])]
     IN /\ promiseAllFulfilled(calls, p, Len(comp))
        /\ calls' = nextComposition([calls EXCEPT ![p].cands = @ \o built], p,
                                    calls[p].rootLabel, calls[p].comp + 1)
  /\ UNCHANGED <<n, variant, cache, best, seq, gens, pc, cand, promises, awaitIdx,
                 ok, pool, inbox, outbox, heap, entryMax, failed, ioFault>>
  /\ UNCHANGED embedVars

\* await saveTreesToCache(size, n, result); return result
putResolves(p) ==
  /\ calls[p].pc = "put"
  /\ cache' = saveTreesToCache(openTreeDB(cache, 0), calls[p].size, n,
                               calls[p].result).db.store
  /\ calls' = [calls EXCEPT ![p].pc = "done", ![p].wrote = TRUE]
  /\ UNCHANGED <<n, variant, best, seq, gens, pc, cand, promises, awaitIdx,
                 ok, pool, inbox, outbox, heap, entryMax, failed, ioFault>>
  /\ UNCHANGED embedVars

\* The store holds the lists of the sizes 1..S for n, written by earlier calls.
RaceInit ==
  /\ n \in 1..MaxN
  /\ variant = "idb"
  /\ \E S \in 0..MaxSize : cache = CacheAfter(S, n, <<>>)
  /\ best = 0 /\ seq = <<>> /\ gens = <<>> /\ pc = "idle" /\ cand = Leaf(1)
  /\ promises = <<>> /\ awaitIdx = 0 /\ ok = TRUE /\ entryMax = 0
  /\ pool = WorkerPool(0) /\ inbox = <<>> /\ outbox = <<>> /\ heap = <<>>
  /\ pA = Leaf(1) /\ pB = Leaf(1) /\ pRes = <<>>
  /\ failed = {} /\ ioFault = 0 /\ calls = <<>>

RaceNext ==
  \/ \E size \in 1..MaxSize : callTreesOfSize(size)
  \/ \E p \in DOMAIN calls : getResolves(p)
  \/ \E p \in DOMAIN calls : allResolves(p)
  \/ \E p \in DOMAIN calls : putResolves(p)

RaceSpec == RaceInit /\ [][RaceNext]_vars

\* The list of every (size, m) as one run of treesOfSize computes it on an empty
\* store, its recursive calls taken one after the other.
ListOf ==
  [m \in 1..MaxN |->
     [size \in 1..MaxSize |-> treesOfSize(size, m, openTreeDB(<<>>, 0)).trees] \o <<>>]
    \o <<>>

\* C19: every call of treesOfSize(size, n) returns one and the same list, the
\* same trees in the same order, whether it reads it from the cache or computes
\* it and however the concurrent calls under Promise.all take their turns; what
\* a call stores under "size:n" is that list, so a write never changes a value
\* the cache holds.
C19_TreesOfSizeDeterministic ==
  /\ [](\A p \in DOMAIN calls :
          calls[p].pc \in {"put", "done"} => calls[p].result = ListOf[n][calls[p].size])
  /\ [](\A size \in 1..MaxSize :
          cacheKey(size, n) \in DOMAIN cache =>
            cache[cacheKey(size, n)] = ListOf[n][size])
  /\ [][\A key \in DOMAIN cache : cache'[key] = cache[key]]_vars

\* two calls for the same size, started by one Promise.all, have both missed
\* the cache, computed their list and stored it, one after the other
C19_Witness ==
  /\ <<1>> \in DOMAIN calls /\ <<2>> \in DOMAIN calls
  /\ calls[<<1>>].size = calls[<<2>>].size
  /\ calls[<<1>>].pc = "done" /\ calls[<<1>>].wrote
  /\ calls[<<2>>].pc = "done" /\ calls[<<2>>].wrote

\* ------------------------------------------ isValidExtension on its own
\* A caller that calls isValidExtension(seq, t, pool) again and again, each call
\* after the one before has returned, while the workers go on with the tasks of
\* the calls before.
ExtSeqs == {<<Leaf(1)>>, <<Leaf(1), Leaf(2)>>, <<Leaf(2), Leaf(1), Leaf(1)>>}

callIsValidExtension(sequence, t) ==
  /\ pc \in {"idle", "decide"}
  /\ pool.nextId + Len(sequence) - 1 <= MaxTasks
  /\ seq' = sequence
  /\ cand' = t
  /\ pc' = "validate"
  /\ promises' = <<>>
  /\ awaitIdx' = 0
  /\ UNCHANGED <<n, variant, cache, best, gens, ok, pool, inbox, outbox, heap,
                 entryMax>>
  /\ UNCHANGED embedVars
  /\ UNCHANGED auxVars

ExtNext ==
  \/ \E sequence \in ExtSeqs, t \in PoolTargets : callIsValidExtension(sequence, t)
  \/ isValidExtension
  \/ isValidExtensionAwait
  \/ \E w \in 1..pool.size : workerOnMessage(w)
  \/ \E w \in 1..pool.size : _onWorkerMessage(w)

\* No worker fails and terminate is not called: a worker runs the message it
\* has, and its reply is delivered.
ExtSpec ==
  /\ PoolInit
  /\ [][ExtNext]_vars
  /\ \A w \in 1..MaxW : WF_vars(w <= pool.size /\ workerOnMessage(w))
  /\ \A w \in 1..MaxW : WF_vars(w <= pool.size /\ _onWorkerMessage(w))

\* C20: isValidExtension, given a sequence that is not empty, submits one task
\* per tree of it in the step before its first await, and cancels none: the
\* tasks behind the one whose result made it return false are dispatched and
\* answered all the same, their promises fulfilled with their own results, also
\* when later calls have put their tasks into the queue meanwhile.
C20_NoTaskCancelled ==
  /\ [][(pc = "validate" /\ pc' = "await") =>
          /\ Len(heap') = Len(heap) + Len(seq)
          /\ Len(promises') = Len(seq)
          /\ pool'.nextId = pool.nextId + Len(seq)
          /\ \A k \in 1..Len(seq) :
               /\ heap'[promises'[k]].pattern = seq[k]
               /\ heap'[promises'[k]].target = cand]_vars
  /\ \A a \in 1..MaxTasks :
       (/\ pc = "decide" /\ ~ok
        /\ \E k \in (awaitIdx + 1)..Len(promises) : promises[k] = a)
         ~> (/\ Len(heap) >= a
             /\ heap[a].state = "fulfilled"
             /\ heap[a].resolves = 1
             /\ heap[a].value = embeds(heap[a].pattern, heap[a].target))

\* a later call has submitted its tasks and awaits them while a task of a call
\* that has returned false is still without its answer
C20_Witness ==
  /\ pc = "await"
  /\ \E a \in 1..Len(heap) :
       /\ \A k \in 1..Len(promises) : promises[k] > a
       /\ heap[a].state = "pending"

\* ------------------------------------------------- direct calls of embeds
\* e.data of tree-worker.js's onmessage, without the pool: a pattern and a target
EmbedInit ==
  /\ SearchIdle
  /\ pA \in TreesUpTo(MaxSize, MaxN)
  /\ pB \in TreesUpTo(MaxSize + 1, MaxN)
  /\ pRes = <<>>

callEmbeds ==
  /\ pRes = <<>>
  /\ pRes' = <<embeds(pA, pB)>>
  /\ UNCHANGED <<pA, pB>>
  /\ UNCHANGED searchVars
  /\ UNCHANGED auxVars

EmbedNext == callEmbeds

EmbedSpec == EmbedInit /\ [][EmbedNext]_vars

\* embeds(A, A): the target is the pattern itself
ReflInit ==
  /\ SearchIdle
  /\ pA \in TreesUpTo(MaxSize + 1, MaxN)
  /\ pB = pA
  /\ pRes = <<>>

ReflSpec == ReflInit /\ [][EmbedNext]_vars

\* ---- the embedding relation of the specification, by its definition
\* A node of a tree is the path of child indices that leads to it from the root.
RECURSIVE Paths(_)
Paths(t) ==
  {<<>>} \cup UNION {{<<k>> \o q : q \in Paths(t.children[k])} : k \in 1..Len(t.children)}

RECURSIVE LabelAt(_, _)
LabelAt(t, path) ==
  IF Len(path) = 0 THEN t.label ELSE LabelAt(t.children[Head(path)], Tail(path))

IsPrefix(u, v) == Len(u) <= Len(v) /\ SubSeq(v, 1, Len(u)) = u
ProperAncestor(u, v) == u # v /\ IsPrefix(u, v)
\* u and v are incomparable and u comes first in left-to-right order
LeftOf(u, v) ==
  \E k \in 1..Len(u) :
    /\ k <= Len(v)
    /\ SubSeq(u, 1, k - 1) = SubSeq(v, 1, k - 1)
    /\ u[k] < v[k]

EmbeddingExists(A, B) ==
  \E f \in [Paths(A) -> Paths(B)] :
    /\ \A u, v \in Paths(A) : u # v => f[u] # f[v]
    /\ \A u \in Paths(A) : LabelAt(A, u) = LabelAt(B, f[u])
    /\ \A u, v \in Paths(A) : ProperAncestor(u, v) => ProperAncestor(f[u], f[v])
    /\ \A u, v \in Paths(A) : LeftOf(u, v) => LeftOf(f[u], f[v])

\* C1: embeds(A, B) is true if and only if an injective, label-preserving map of
\* the nodes of A into the nodes of B exists that preserves proper ancestors and
\* the left-to-right order of incomparable nodes.
C1_EmbedsIffEmbedding ==
  pRes # <<>> => (pRes[1] = EmbeddingExists(pA, pB))

\* C9: embeds is reflexive: embeds(A, A) is true for every tree A.
C9_EmbedsReflexive ==
  (pRes # <<>> /\ pA = pB) => pRes[1] = TRUE

\* a tree with two children, one of them with children of its own, was tested
\* against itself
C9_Witness ==
  /\ pRes = <<TRUE>> /\ pA = pB
  /\ Len(pA.children) >= 2
  /\ \E k \in 1..Len(pA.children) : Len(pA.children[k].children) >= 1

====
